---------------------------- MODULE Spec2Model ----------------------------
(***************************************************************************)
(* Model of the two Netlify functions of the repository:                   *)
(*   netlify/functions/progress.ts  (batch-apply events, Supabase client)  *)
(*   netlify/functions/sync.js      (pull/push of user state over REST)    *)
(*                                                                         *)
(* Strings that take part in sorting, formatting or parsing are sequences  *)
(* of UTF-16 code units.  HMAC-SHA256 is a symbolic, collision-free term.  *)
(***************************************************************************)
EXTENDS Integers, Sequences, FiniteSets, TLC

(***************************************************************************)
(* Bounds of the model.                                                    *)
(***************************************************************************)
MaxPairs == 3      \* non-hash pairs of a credential blob (verifier runs)
NReq == 2          \* concurrent requests to the progress function
MaxDay == 2        \* calendar days the progress run may span
MaxCounter == 1    \* largest value a progress counter holds initially

(***************************************************************************)
(* String literals as code-unit sequences.                                 *)
(***************************************************************************)
K_user == <<117,115,101,114>>                        \* "user"
K_auth_date == <<97,117,116,104,95,100,97,116,101>>  \* "auth_date"
K_a == <<97>>                                        \* "a"
K_a1 == <<97,49>>                                    \* "a1"
K_B == <<66>>                                        \* "B"
V_1 == <<49>>                                        \* "1"
U_7 == <<123,34,105,100,34,58,55,125>>               \* {"id":7}
U_8x == <<123,34,105,100,34,58,56,44,34,117,115,101,114,110,97,109,101,34,58,34,120,34,125>>
                                                     \* {"id":8,"username":"x"}
U_0 == <<123,34,105,100,34,58,48,125>>               \* {"id":0}
U_null == <<110,117,108,108>>                        \* null
U_bad == <<123>>                                     \* {
D_fresh == <<54,57,57,57,57,48>>                     \* "699990"
D_edge == <<57,53,50,48,48>>                         \* "95200"
D_stale == <<57,53,49,57,57>>                        \* "95199"

Undefined == "undefined"
EqSign == 61       \* "="
NewLine == 10      \* "\n"
WeekSec == 604800  \* 86400 * 7

(***************************************************************************)
(* String helpers.                                                         *)
(***************************************************************************)
\* s < t in code-unit order: what the default Array.prototype.sort comparator
\* and the relational operators of JavaScript decide for strings.
CodeUnitLess(s, t) ==
  \E i \in 1..Len(t) :
    /\ i - 1 <= Len(s)
    /\ \A j \in 1..(i - 1) : s[j] = t[j]
    /\ (i <= Len(s) => s[i] < t[i])

\* Root-collation weights of String.prototype.localeCompare (ICU): the primary
\* weight orders punctuation, then digits, then letters regardless of case;
\* the tertiary weight puts a lower-case letter before its upper-case form.
\* The keys of the model hold letters, digits and "_" only.
PrimaryWeight(c) ==
  IF c >= 97 /\ c <= 122 THEN 100 + (c - 97)
  ELSE IF c >= 65 /\ c <= 90 THEN 100 + (c - 65)
  ELSE IF c >= 48 /\ c <= 57 THEN 50 + (c - 48)
  ELSE IF c = 95 THEN 1
  ELSE 2

TertiaryWeight(c) == IF c >= 65 /\ c <= 90 THEN 1 ELSE 0

\* a.localeCompare(b) < 0
LocaleLess(s, t) ==
  LET P(x) == [i \in 1..Len(x) |-> PrimaryWeight(x[i])]
      T(x) == [i \in 1..Len(x) |-> TertiaryWeight(x[i])]
  IN  \/ CodeUnitLess(P(s), P(t))
      \/ P(s) = P(t) /\ CodeUnitLess(T(s), T(t))

\* Array.prototype.sort, which is stable: s ordered by the comparator whose
\* "comes before" pairs of positions are given in before.
SortBy(s, before) ==
  LET rank(i) == Cardinality({j \in 1..Len(s) :
                     \/ <<j, i>> \in before
                     \/ (j < i /\ <<i, j>> \notin before)}) + 1
  IN  [p \in 1..Len(s) |-> s[CHOOSE i \in 1..Len(s) : rank(i) = p]]

Positions(s) == (1..Len(s)) \X (1..Len(s))

RECURSIVE Join(_, _)
\* strs.join(sep) with a one-unit separator
Join(strs, sep) ==
  IF Len(strs) = 0 THEN <<>>
  ELSE IF Len(strs) = 1 THEN strs[1]
  ELSE strs[1] \o <<sep>> \o Join(Tail(strs), sep)

\* `${k}=${v}`
FormatPair(p) == p.k \o <<EqSign>> \o p.v

RECURSIVE DigitsToNat(_, _)
DigitsToNat(s, acc) ==
  IF Len(s) = 0 THEN acc
  ELSE DigitsToNat(Tail(s), 10 * acc + (s[1] - 48))

\* Number(s) for a string of decimal digits
ToNumber(s) == DigitsToNat(s, 0)

(***************************************************************************)
(* Cryptography: symbolic HMAC and the hex digest.                         *)
(*                                                                         *)
(* A credential blob is [entries, hash]: entries are the percent-decoded   *)
(* pairs other than hash, in the order of the string, as URLSearchParams   *)
(* yields them; hash is the value of the hash pair, a string given by its  *)
(* length and by what it spells.  The empty initData string is the blob    *)
(* with no pairs and no hash.                                              *)
(***************************************************************************)
HmacSha256(key, msg) == <<"hmac", key, msg>>

\* .digest("hex"): 64 lower-case hex characters naming the digest
HexDigest(d) == [len |-> 64, tag |-> d]

\* crypto.timingSafeEqual: throws on a length difference
TimingSafeEqual(a, b) ==
  IF a.len # b.len THEN "throw" ELSE IF a = b THEN "equal" ELSE "differ"

NoHash == [len |-> 0, tag |-> <<"none", <<>>, <<>>>>]       \* no hash pair
EmptyHash == [len |-> 0, tag |-> <<"empty", <<>>, <<>>>>]   \* "hash="
ShortHash == [len |-> 3, tag |-> <<"junk", <<>>, <<>>>>]    \* e.g. "abc"
\* a 64-character hex string that is the digest h with one character flipped
Flipped(h) == [len |-> 64, tag |-> <<"flip", h.tag[2], h.tag[3]>>]

\* URLSearchParams.get(name): the first value, or the JS null
ParamsGet(entries, key) ==
  IF \E i \in 1..Len(entries) : entries[i].k = key
  THEN entries[CHOOSE i \in 1..Len(entries) :
                 /\ entries[i].k = key
                 /\ \A j \in 1..(i - 1) : entries[j].k # key].v
  ELSE <<>>

ParamsHas(entries, key) == \E i \in 1..Len(entries) : entries[i].k = key

\* JSON.parse on the user strings of the model
JsonParse(s) ==
  CASE s = U_7 -> [ok |-> TRUE, isNull |-> FALSE, id |-> 7, username |-> Undefined]
    [] s = U_8x -> [ok |-> TRUE, isNull |-> FALSE, id |-> 8, username |-> "x"]
    [] s = U_0 -> [ok |-> TRUE, isNull |-> FALSE, id |-> 0, username |-> Undefined]
    [] s = U_null -> [ok |-> TRUE, isNull |-> TRUE, id |-> 0, username |-> Undefined]
    [] OTHER -> [ok |-> FALSE, isNull |-> FALSE, id |-> 0, username |-> Undefined]


(***************************************************************************)
(* The canonical check-string of the issuing platform: all non-hash pairs, *)
(* ordered by decoded key in code-point order, "key=value", newline-joined.*)
(***************************************************************************)
CanonicalCheckString(entries) ==
  LET sorted == SortBy(entries, {x \in Positions(entries) :
                                  CodeUnitLess(entries[x[1]].k, entries[x[2]].k)})
  IN  Join([i \in 1..Len(sorted) |-> FormatPair(sorted[i])], NewLine)

\* The signature the platform issues for the pairs under a bot token.
Sign(botToken, checkString) ==
  HexDigest(HmacSha256(HmacSha256("WebAppData", botToken), checkString))

(***************************************************************************)
(* progress.ts: verifyTelegramInitData                                     *)
(***************************************************************************)
Fail(reason) == [ok |-> FALSE, reason |-> reason, userId |-> 0, username |-> Undefined]

\* pairs.push(`${k}=${v}`) for every non-hash pair; pairs.sort(); join("\n")
DataCheckStringProgress(entries) ==
  LET pairs == [i \in 1..Len(entries) |-> FormatPair(entries[i])]
  IN  Join(SortBy(pairs, {x \in Positions(pairs) :
                            CodeUnitLess(pairs[x[1]], pairs[x[2]])}), NewLine)

\* The hash comparison of lines 53-60: "ok", or the reason it fails with.
HashCheckProgress(calcHash, hash) ==
  LET isEqual == TimingSafeEqual(calcHash, hash)
  IN  IF isEqual = "throw" THEN "CRYPTO_FAIL"
      ELSE IF isEqual = "differ" THEN "HASH_MISMATCH"
      ELSE "ok"

\* Lines 62-70: the user field; no freshness check is made.
UserOfProgress(entries) ==
  LET userJson == ParamsGet(entries, K_user)
      user == JsonParse(userJson)
  IN  IF userJson = <<>> THEN Fail("NO_USER")
      ELSE IF ~user.ok \/ user.isNull THEN Fail("USER_PARSE")
      ELSE [ok |-> TRUE, reason |-> "", userId |-> user.id, username |-> user.username]

VerifyTelegramInitData(initData, TELEGRAM_BOT_TOKEN) ==
  IF initData.entries = <<>> /\ initData.hash = NoHash THEN Fail("EMPTY")
  ELSE IF initData.hash.len = 0 THEN Fail("NO_HASH")
  ELSE LET dataCheckString == DataCheckStringProgress(initData.entries)
           secretKey == HmacSha256("WebAppData", TELEGRAM_BOT_TOKEN)
           calcHash == HexDigest(HmacSha256(secretKey, dataCheckString))
           check == HashCheckProgress(calcHash, initData.hash)
       IN  IF check # "ok" THEN Fail(check)
           ELSE UserOfProgress(initData.entries)

(***************************************************************************)
(* sync.js: verifyTelegram                                                 *)
(***************************************************************************)
Null == [ok |-> FALSE, id |-> 0, username |-> Undefined]

\* [...params.entries()].sort(([a],[b]) => a.localeCompare(b)).map(...).join("\n")
DataCheckStringSync(entries) ==
  LET sorted == SortBy(entries, {x \in Positions(entries) :
                                  LocaleLess(entries[x[1]].k, entries[x[2]].k)})
  IN  Join([i \in 1..Len(sorted) |-> FormatPair(sorted[i])], NewLine)

\* Date.now() / 1000 - authDate > 86400 * 7
IsStaleSync(entries, now) ==
  LET authDate == ToNumber(ParamsGet(entries, K_auth_date))
  IN  now - authDate > WeekSec

VerifyTelegram(initData, botToken, now) ==
  IF initData.entries = <<>> /\ initData.hash = NoHash THEN Null
  ELSE IF initData.hash.len = 0 THEN Null
  ELSE LET dataCheckString == DataCheckStringSync(initData.entries)
           secretKey == HmacSha256("WebAppData", botToken)
           sign == HexDigest(HmacSha256(secretKey, dataCheckString))
           userStr == ParamsGet(initData.entries, K_user)
           user == JsonParse(userStr)
       IN  IF sign # initData.hash THEN Null
           ELSE IF userStr = <<>> THEN Null
           ELSE IF IsStaleSync(initData.entries, now) THEN Null
           ELSE IF ~user.ok \/ user.isNull THEN Null
           ELSE [ok |-> TRUE, id |-> user.id, username |-> user.username]

(***************************************************************************)
(* Inputs of the verifier runs.                                            *)
(***************************************************************************)
Pair(k, v) == [k |-> k, v |-> v]

PairPool ==
  { Pair(K_user, U_7), Pair(K_user, U_8x), Pair(K_user, U_null),
    Pair(K_user, U_bad), Pair(K_auth_date, D_fresh), Pair(K_auth_date, D_stale),
    Pair(K_a, V_1), Pair(K_a1, V_1), Pair(K_B, V_1) }

SeqsUpTo(S, n) == UNION { [1..m -> S] : m \in 0..n }

Tokens == {"tokA", "tokB"}
NowValues == {700000}

\* The hash values a blob with these pairs may carry.
HashChoices(entries) ==
  { NoHash, EmptyHash, ShortHash }
  \cup { Sign(t, CanonicalCheckString(entries)) : t \in Tokens }
  \cup { Sign(t, DataCheckStringProgress(entries)) : t \in Tokens }
  \cup { Sign(t, DataCheckStringSync(entries)) : t \in Tokens }
  \cup { Flipped(Sign(t, CanonicalCheckString(entries))) : t \in Tokens }

\* The pairs of a blob carry pairwise different keys.
DistinctKeys(e) == \A i, j \in 1..Len(e) : e[i].k = e[j].k => i = j

Blobs(n) ==
  UNION { { [entries |-> e, hash |-> h] : h \in HashChoices(e) } :
          e \in { x \in SeqsUpTo(PairPool, n) : DistinctKeys(x) } }

(***************************************************************************)
(* progress.ts: devUser, upsertUserProfile, applyEvents                    *)
(***************************************************************************)
Kinds == {"cards", "quiz", "cheese", "accent"}
ZeroInc == [k \in Kinds |-> 0]

H_absent == <<>>      \* header not sent
H_9 == <<57>>         \* "9"
H_x == <<120>>        \* "x"

IsDigits(s) == Len(s) > 0 /\ \A i \in 1..Len(s) : s[i] >= 48 /\ s[i] <= 57

\* devUser(headers): {} unless x-dev-user is a finite number
DevUser(headers) ==
  IF headers.xDevUser = H_absent THEN [hasId |-> FALSE, id |-> 0, username |-> Undefined]
  ELSE IF ~IsDigits(headers.xDevUser) THEN [hasId |-> FALSE, id |-> 0, username |-> Undefined]
  ELSE [hasId |-> TRUE, id |-> ToNumber(headers.xDevUser), username |-> headers.xDevUsername]

Stat(kind) == [type |-> "stat", kind |-> kind, hasStats |-> FALSE, stats |-> ZeroInc]
\* a sync event; stats holds the kinds the payload gives, the others are absent
Sync(given, val) ==
  [type |-> "sync", kind |-> "", hasStats |-> TRUE,
   stats |-> [k \in Kinds |-> IF k \in given THEN val ELSE -1]]

\* sync.<kind> ?? 0
StatOrZero(stats, k) == IF stats[k] = -1 THEN 0 ELSE stats[k]

RECURSIVE EventLoop(_, _, _, _)
\* for (const e of events) { stat: inc[kind] += 1; sync: sync = stats ?? null }
EventLoop(events, i, inc, sync) ==
  IF i > Len(events) THEN [inc |-> inc, sync |-> sync]
  ELSE LET e == events[i]
       IN  IF e.type = "stat"
           THEN EventLoop(events, i + 1, [inc EXCEPT ![e.kind] = @ + 1], sync)
           ELSE IF e.type = "sync"
           THEN EventLoop(events, i + 1, inc,
                          [isNull |-> ~e.hasStats, stats |-> e.stats])
           ELSE EventLoop(events, i + 1, inc, sync)

NullSync == [isNull |-> TRUE, stats |-> ZeroInc]
Totals(events) == EventLoop(events, 1, ZeroInc, NullSync)

\* Object.values(inc).some((v) => v > 0)
AnyInc(inc) == \E k \in Kinds : inc[k] > 0

\* The row the progress upsert writes (lines 107-113).
SyncRow(sync) == [k \in Kinds |-> StatOrZero(sync.stats, k)]

NoRow == [present |-> FALSE, c |-> ZeroInc]

\* supabase.from("progress").upsert(row, { onConflict: "user_id,day" })
UpsertProgressRow(table, userId, day, row) ==
  [table EXCEPT ![<<userId, day>>] = [present |-> TRUE, c |-> row]]

\* rpc mnc_increment_progress: one atomic add of the totals to the row,
\* creating it when it is absent.
IncrementProgress(table, userId, day, inc) ==
  [table EXCEPT ![<<userId, day>>] =
     [present |-> TRUE, c |-> [k \in Kinds |-> @.c[k] + inc[k]]]]

\* supabase.from("users").upsert(row, { onConflict: "id" }): only the columns
\* given are written.
UpsertUserRow(table, id, username) ==
  [table EXCEPT ![id] =
     [present |-> TRUE,
      username |-> IF username # Undefined THEN username ELSE @.username]]

\* supabase.from("events").insert(toLog): one row per event
InsertEventRows(log, userId, events) ==
  [u \in DOMAIN log |-> IF u = userId THEN log[u] + Len(events) ELSE log[u]]

(***************************************************************************)
(* Inputs of the progress function.                                        *)
(***************************************************************************)
Sentinel == 0 - 9999
UserIds == {7, 8, 9}
Days == 1..MaxDay

SignedBlob(entries, botToken) ==
  [entries |-> entries, hash |-> Sign(botToken, CanonicalCheckString(entries))]

NoInitData == [entries |-> <<>>, hash |-> NoHash]
Good7 == SignedBlob(<<Pair(K_auth_date, D_fresh), Pair(K_user, U_7)>>, "tokA")
Old8 == SignedBlob(<<Pair(K_auth_date, D_stale), Pair(K_user, U_8x)>>, "tokA")
Forged8 == SignedBlob(<<Pair(K_auth_date, D_fresh), Pair(K_user, U_8x)>>, "")
Flip7 == [entries |-> Good7.entries, hash |-> Flipped(Good7.hash)]

Request(method, op, bodyOk, initData, xDevUser, bodyOp, events) ==
  [method |-> method, op |-> op, bodyOk |-> bodyOk, initData |-> initData,
   headers |-> [xDevUser |-> xDevUser, xDevUsername |-> Undefined],
   bodyOp |-> bodyOp, events |-> events]

\* Requests of every method and shape, one at a time.
RoutingPool ==
  { Request(m, "ping", TRUE, NoInitData, H_absent, "batch", <<>>) :
      m \in {"OPTIONS", "PUT"} }
  \cup { Request("GET", op, TRUE, NoInitData, H_absent, "batch", <<>>) :
           op \in {"ping", "diag", "probe"} }
  \cup { Request("POST", "ping", FALSE, NoInitData, h, "batch", <<>>) :
           h \in {H_absent, H_9} }
  \cup { Request("POST", "ping", TRUE, i, h, o, e) :
           i \in {NoInitData, Good7, Old8, Forged8, Flip7},
           h \in {H_absent, H_9, H_x},
           o \in {"batch", "other"},
           e \in {<<>>, <<Stat("cards")>>, <<Sync({"cards"}, 3), Stat("quiz")>>} }

\* The event lists of the concurrent batches, in a fixed order.
BatchLists ==
  << <<>>,
     <<Stat("cards")>>,
     <<Stat("cards"), Stat("cards")>>,
     <<Stat("cards"), Stat("quiz")>>,
     <<Sync({"cards"}, 3)>>,
     <<Sync({"cards"}, 3), Stat("cards")>> >>

\* Batches of one verified identity, sent concurrently.
BatchRequest(i) == Request("POST", "ping", TRUE, Good7, H_absent, "batch", BatchLists[i])

\* Concurrent requests are interchangeable: they are numbered in the order of
\* their batches in BatchLists.
BatchInputs(n) ==
  { [r \in 1..n |-> BatchRequest(f[r])] :
      f \in { g \in [1..n -> 1..Len(BatchLists)] :
                \A r \in 1..(n - 1) : g[r] <= g[r + 1] } }

(***************************************************************************)
(* Inputs of the sync function.                                            *)
(***************************************************************************)
SyncIds == {0, 7, 8}
Zero0 == SignedBlob(<<Pair(K_auth_date, D_fresh), Pair(K_user, U_0)>>, "tokA")
Edge7 == SignedBlob(<<Pair(K_auth_date, D_edge), Pair(K_user, U_7)>>, "tokA")

SyncRequest(method, action, initData, bodyOk, data) ==
  [method |-> method, action |-> action, initData |-> initData,
   bodyOk |-> bodyOk, data |-> data]

SyncPool ==
  { SyncRequest(m, a, i, b, d) :
      m \in {"OPTIONS", "GET", "POST"},
      a \in {"none", "ping", "pull", "push", "other"},
      i \in {NoInitData, Good7, Edge7, Old8, Flip7, Zero0},
      b \in BOOLEAN,
      d \in {"absent", "d1"} }

SyncEnvs ==
  [BOT_TOKEN : {"", "tokA"}, SUPABASE_URL : {"", "url"},
   SUPABASE_SERVICE_KEY : {"", "key"}]

NoState == [present |-> FALSE, data |-> "absent", username |-> Undefined]

(***************************************************************************)
(* State.                                                                  *)
(***************************************************************************)
VARIABLES
  vBlob,    \* verifier runs: the credential blob presented
  vToken,   \* verifier runs: the bot secret configured
  vNow,     \* verifier runs: Date.now() / 1000
  vRan,     \* verifier runs: which verifiers have returned
  resP,     \* verifier runs: result of verifyTelegramInitData
  resS,     \* verifier runs: result of verifyTelegram
  pEnv,     \* progress.ts: TELEGRAM_BOT_TOKEN ("" when unset)
  req,      \* progress.ts: the requests received
  rq,       \* progress.ts: each invocation's position, locals and response
  users,    \* store: table users
  eventsLog,\* store: rows of table events, per user
  progress, \* store: table progress, by (user_id, day)
  progress0,\* the progress table before the requests
  day,      \* the calendar day, as new Date() reads it
  sEnv,     \* sync.js: BOT_TOKEN, SUPABASE_URL, SUPABASE_SERVICE_KEY
  sReq,     \* sync.js: the request received
  sr,       \* sync.js: the invocation's position, locals and response
  sNow,     \* sync.js: Date.now() / 1000
  userState \* store: table user_state, by tg_id

vvars == <<vBlob, vToken, vNow, vRan, resP, resS>>
pvars == <<pEnv, req, rq, users, eventsLog, progress, progress0, day>>
store == <<users, eventsLog, progress>>
svars == <<sEnv, sReq, sr, sNow, userState>>
vars == <<vvars, pvars, svars>>

(***************************************************************************)
(* Verifier runs: each verifier applied to one blob.                       *)
(***************************************************************************)
VerifyIdle ==
  /\ vBlob = NoInitData
  /\ vToken = "tokA"
  /\ vNow \in NowValues
  /\ vRan = {"progress", "sync"}
  /\ resP = Fail("EMPTY")
  /\ resS = Null

ProgressIdle ==
  /\ pEnv = "tokA"
  /\ req = <<>>
  /\ rq = <<>>
  /\ users = [u \in UserIds \cup {Sentinel} |-> [present |-> FALSE, username |-> Undefined]]
  /\ eventsLog = [u \in UserIds |-> 0]
  /\ progress = [x \in UserIds \X Days |-> NoRow]
  /\ progress0 = progress
  /\ day = 1

SyncIdle ==
  /\ sEnv = [BOT_TOKEN |-> "tokA", SUPABASE_URL |-> "url", SUPABASE_SERVICE_KEY |-> "key"]
  /\ sReq = SyncRequest("OPTIONS", "none", NoInitData, TRUE, "absent")
  /\ sr = [pc |-> "done", status |-> 204, user |-> Null, storeFailed |-> FALSE]
  /\ sNow \in NowValues
  /\ userState = [u \in SyncIds |-> NoState]

VerifyInit ==
  /\ vBlob \in Blobs(MaxPairs)
  /\ vToken \in Tokens
  /\ vNow \in NowValues
  /\ vRan = {}
  /\ resP = Fail("PENDING")
  /\ resS = Null
  /\ ProgressIdle
  /\ SyncIdle

RunProgressVerifier ==
  /\ "progress" \notin vRan
  /\ resP' = VerifyTelegramInitData(vBlob, vToken)
  /\ vRan' = vRan \cup {"progress"}
  /\ UNCHANGED <<vBlob, vToken, vNow, resS, pvars, svars>>

RunSyncVerifier ==
  /\ "sync" \notin vRan
  /\ resS' = VerifyTelegram(vBlob, vToken, vNow)
  /\ vRan' = vRan \cup {"sync"}
  /\ UNCHANGED <<vBlob, vToken, vNow, resP, pvars, svars>>

VerifyNext == RunProgressVerifier \/ RunSyncVerifier

SpecVerify == VerifyInit /\ [][VerifyNext]_vars

(***************************************************************************)
(* progress.ts: handler.  Every await of a store call ends a step.         *)
(***************************************************************************)
Fresh ==
  [pc |-> "start", status |-> 0, idSource |-> "none", userId |-> 0,
   username |-> Undefined, today |-> 0, inc |-> ZeroInc, sync |-> NullSync,
   insErr |-> FALSE]

InitialRow(prev) == [present |-> prev > 0, c |-> [k \in Kinds |-> prev]]

ProgressInitWith(tokens, inputs) ==
  /\ pEnv \in tokens
  /\ req \in inputs
  /\ rq = [r \in DOMAIN req |-> Fresh]
  /\ users = [u \in UserIds \cup {Sentinel} |-> [present |-> FALSE, username |-> Undefined]]
  /\ eventsLog = [u \in UserIds |-> 0]
  /\ \E prev \in 0..MaxCounter : progress = [x \in UserIds \X Days |-> InitialRow(prev)]
  /\ progress0 = progress
  /\ day = 1
  /\ VerifyIdle
  /\ SyncIdle

\* return resp(..., status)
Respond(r, status) == rq' = [rq EXCEPT ![r].pc = "done", ![r].status = status]

\* line 126
HandleOptions(r) ==
  /\ rq[r].pc = "start"
  /\ req[r].method = "OPTIONS"
  /\ Respond(r, 200)
  /\ UNCHANGED <<vvars, svars, pEnv, req, store, progress0, day>>

\* lines 128-140: ping answers at once, diag and probe go to the store
HandleGet(r) ==
  /\ rq[r].pc = "start"
  /\ req[r].method = "GET"
  /\ IF req[r].op = "diag" THEN rq' = [rq EXCEPT ![r].pc = "diagSelect"]
     ELSE IF req[r].op = "probe" THEN rq' = [rq EXCEPT ![r].pc = "probeUpsert"]
     ELSE Respond(r, 200)
  /\ UNCHANGED <<vvars, svars, pEnv, req, store, progress0, day>>

\* line 132-133: the select's error only sets dbOk
DiagSelect(r) ==
  /\ rq[r].pc = "diagSelect"
  /\ \E error \in BOOLEAN : Respond(r, 200)
  /\ UNCHANGED <<vvars, svars, pEnv, req, store, progress0, day>>

\* line 137: upsert of the sentinel row
ProbeUpsert(r) ==
  /\ rq[r].pc = "probeUpsert"
  /\ \E error \in BOOLEAN :
       /\ users' = IF error THEN users ELSE UpsertUserRow(users, Sentinel, Undefined)
       /\ rq' = [rq EXCEPT ![r].pc = "probeDelete", ![r].insErr = error]
  /\ UNCHANGED <<vvars, svars, pEnv, req, eventsLog, progress, progress0, day>>

\* line 137: delete of the sentinel row, then the response
ProbeDelete(r) ==
  /\ rq[r].pc = "probeDelete"
  /\ \E error \in BOOLEAN :
       /\ users' = IF error THEN users
                   ELSE [users EXCEPT ![Sentinel] = [present |-> FALSE, username |-> Undefined]]
       /\ Respond(r, 200)
  /\ UNCHANGED <<vvars, svars, pEnv, req, eventsLog, progress, progress0, day>>

\* line 142
HandleOther(r) ==
  /\ rq[r].pc = "start"
  /\ req[r].method \notin {"OPTIONS", "GET", "POST"}
  /\ Respond(r, 405)
  /\ UNCHANGED <<vvars, svars, pEnv, req, store, progress0, day>>

\* lines 148-155: the identity of a POST
IdentityOf(request, token) ==
  IF request.initData # NoInitData
  THEN LET v == VerifyTelegramInitData(request.initData, token)
       IN  [failed |-> ~v.ok, reason |-> v.reason, source |-> "initData",
            userId |-> v.userId, username |-> v.username]
  ELSE LET u == DevUser(request.headers)
       IN  [failed |-> FALSE, reason |-> "", source |-> "dev",
            userId |-> IF u.hasId THEN u.id ELSE 0, username |-> u.username]

\* lines 144-162: a POST up to its first store call
HandlePost(r) ==
  /\ rq[r].pc = "start"
  /\ req[r].method = "POST"
  /\ LET who == IdentityOf(req[r], pEnv)
     IN  IF ~req[r].bodyOk THEN Respond(r, 400)
         ELSE IF who.failed THEN Respond(r, 401)
         ELSE IF who.userId = 0 THEN Respond(r, 401)
         ELSE IF req[r].bodyOp # "batch" THEN Respond(r, 400)
         ELSE rq' = [rq EXCEPT ![r].pc = "upsertUser", ![r].idSource = who.source,
                                ![r].userId = who.userId, ![r].username = who.username]
  /\ UNCHANGED <<vvars, svars, pEnv, req, store, progress0, day>>

\* lines 79-85 and 88: the users upsert, then applyEvents up to the insert
UpsertUserProfile(r) ==
  /\ rq[r].pc = "upsertUser"
  /\ \E error \in BOOLEAN :
       IF error THEN Respond(r, 500) /\ users' = users
       ELSE /\ users' = UpsertUserRow(users, rq[r].userId, rq[r].username)
            /\ IF Len(req[r].events) = 0 THEN Respond(r, 200)
               ELSE rq' = [rq EXCEPT ![r].pc = "insertEvents"]
  /\ UNCHANGED <<vvars, svars, pEnv, req, eventsLog, progress, progress0, day>>

\* Where applyEvents goes after a step: the upsert, the rpc or the return.
AfterInsert(r, totals) ==
  IF ~totals.sync.isNull THEN "upsertProgress"
  ELSE IF AnyInc(totals.inc) THEN "rpc"
  ELSE "done"

\* lines 96-105: the events insert, today, and the totals of the batch
InsertEvents(r) ==
  /\ rq[r].pc = "insertEvents"
  /\ \E error \in BOOLEAN :
       IF error THEN Respond(r, 500) /\ eventsLog' = eventsLog
       ELSE LET totals == Totals(req[r].events)
                next == AfterInsert(r, totals)
            IN  /\ eventsLog' = InsertEventRows(eventsLog, rq[r].userId, req[r].events)
                /\ rq' = [rq EXCEPT ![r].pc = next,
                                    ![r].status = IF next = "done" THEN 200 ELSE 0,
                                    ![r].today = day,
                                    ![r].inc = totals.inc,
                                    ![r].sync = totals.sync]
  /\ UNCHANGED <<vvars, svars, pEnv, req, users, progress, progress0, day>>

\* lines 106-115: the progress upsert of a sync event
UpsertProgress(r) ==
  /\ rq[r].pc = "upsertProgress"
  /\ \E error \in BOOLEAN :
       IF error THEN Respond(r, 500) /\ progress' = progress
       ELSE /\ progress' = UpsertProgressRow(progress, rq[r].userId, rq[r].today,
                                             SyncRow(rq[r].sync))
            /\ IF AnyInc(rq[r].inc) THEN rq' = [rq EXCEPT ![r].pc = "rpc"]
               ELSE Respond(r, 200)
  /\ UNCHANGED <<vvars, svars, pEnv, req, users, eventsLog, progress0, day>>

\* The totals written through a last-write-wins upsert instead of the rpc.
RpcAsUpsert(r) ==
  /\ rq[r].pc = "rpc"
  /\ \E error \in BOOLEAN :
       IF error THEN Respond(r, 500) /\ progress' = progress
       ELSE /\ progress' = UpsertProgressRow(progress, rq[r].userId, rq[r].today,
                 [k \in Kinds |-> progress0[<<rq[r].userId, rq[r].today>>].c[k] + rq[r].inc[k]])
            /\ Respond(r, 200)
  /\ UNCHANGED <<vvars, svars, pEnv, req, users, eventsLog, progress0, day>>

\* lines 116-122: the increment rpc
RpcIncrement(r) ==
  /\ rq[r].pc = "rpc"
  /\ \E error \in BOOLEAN :
       IF error THEN Respond(r, 500) /\ progress' = progress
       ELSE /\ progress' = IncrementProgress(progress, rq[r].userId, rq[r].today, rq[r].inc)
            /\ Respond(r, 200)
  /\ UNCHANGED <<vvars, svars, pEnv, req, users, eventsLog, progress0, day>>

\* midnight passes
Tick ==
  /\ day < MaxDay
  /\ day' = day + 1
  /\ UNCHANGED <<vvars, svars, pEnv, req, rq, store, progress0>>

ProgressNext ==
  \/ \E r \in DOMAIN req : HandleOptions(r)
  \/ \E r \in DOMAIN req : HandleGet(r)
  \/ \E r \in DOMAIN req : DiagSelect(r)
  \/ \E r \in DOMAIN req : ProbeUpsert(r)
  \/ \E r \in DOMAIN req : ProbeDelete(r)
  \/ \E r \in DOMAIN req : HandleOther(r)
  \/ \E r \in DOMAIN req : HandlePost(r)
  \/ \E r \in DOMAIN req : UpsertUserProfile(r)
  \/ \E r \in DOMAIN req : InsertEvents(r)
  \/ \E r \in DOMAIN req : UpsertProgress(r)
  \/ \E r \in DOMAIN req : RpcIncrement(r)
  \/ Tick

BatchNext ==
  \/ \E r \in DOMAIN req : HandlePost(r)
  \/ \E r \in DOMAIN req : UpsertUserProfile(r)
  \/ \E r \in DOMAIN req : InsertEvents(r)
  \/ \E r \in DOMAIN req : UpsertProgress(r)
  \/ \E r \in DOMAIN req : RpcIncrement(r)
  \/ Tick

\* One request of any shape.
SpecProgress ==
  ProgressInitWith({"", "tokA"}, [1..1 -> RoutingPool]) /\ [][ProgressNext]_vars

\* NReq concurrent batches of one identity.
SpecBatch == ProgressInitWith({"tokA"}, BatchInputs(NReq)) /\ [][BatchNext]_vars

(***************************************************************************)
(* sync.js: handler.  Every await of a store call ends a step.             *)
(***************************************************************************)
SyncInit ==
  /\ sEnv \in SyncEnvs
  /\ sReq \in SyncPool
  /\ sr = [pc |-> "start", status |-> 0, user |-> Null, storeFailed |-> FALSE]
  /\ sNow \in NowValues
  /\ \E before \in {NoState, [present |-> TRUE, data |-> "d0", username |-> Undefined]} :
       userState = [u \in SyncIds |-> before]
  /\ VerifyIdle
  /\ ProgressIdle

\* return json(code, ...)
SyncRespond(code) == sr' = [sr EXCEPT !.pc = "done", !.status = code]

\* !BOT_TOKEN || !SUPABASE_URL || !SUPABASE_SERVICE_KEY
EnvMissing(env) ==
  env.BOT_TOKEN = "" \/ env.SUPABASE_URL = "" \/ env.SUPABASE_SERVICE_KEY = ""

\* lines 21-65: the handler up to its first store call
SyncHandle ==
  /\ sr.pc = "start"
  /\ LET user == VerifyTelegram(sReq.initData, sEnv.BOT_TOKEN, sNow)
     IN  IF sReq.method = "OPTIONS" THEN SyncRespond(204)
         ELSE IF EnvMissing(sEnv) THEN SyncRespond(500)
         ELSE IF sReq.action = "ping" THEN SyncRespond(200)
         ELSE IF ~user.ok THEN SyncRespond(401)
         ELSE IF sReq.action = "pull" THEN sr' = [sr EXCEPT !.pc = "sGet", !.user = user]
         ELSE IF sReq.action = "push"
         THEN IF sReq.method # "POST" THEN sr' = [sr EXCEPT !.pc = "done", !.status = 405, !.user = user]
              ELSE IF ~sReq.bodyOk THEN sr' = [sr EXCEPT !.pc = "done", !.status = 500, !.user = user]
              ELSE sr' = [sr EXCEPT !.pc = "sUpsert", !.user = user]
         ELSE sr' = [sr EXCEPT !.pc = "done", !.status = 400, !.user = user]
  /\ UNCHANGED <<vvars, pvars, sEnv, sReq, sNow, userState>>

\* lines 109-141: 406 and an empty array give the empty state, any other
\* failure throws
SGet ==
  /\ sr.pc = "sGet"
  /\ \E outcome \in {"ok", "406", "fail"} :
       IF outcome = "fail"
       THEN sr' = [sr EXCEPT !.pc = "done", !.status = 500, !.storeFailed = TRUE]
       ELSE SyncRespond(200)
  /\ UNCHANGED <<vvars, pvars, sEnv, sReq, sNow, userState>>

\* lines 54-66 and 144-163: the merge-duplicates upsert of the payload
SUpsert ==
  /\ sr.pc = "sUpsert"
  /\ \E outcome \in {"ok", "fail"} :
       IF outcome = "fail"
       THEN /\ sr' = [sr EXCEPT !.pc = "done", !.status = 500, !.storeFailed = TRUE]
            /\ userState' = userState
       ELSE /\ SyncRespond(200)
            /\ userState' = [userState EXCEPT ![sr.user.id] =
                 [present |-> TRUE, data |-> sReq.data, username |-> sr.user.username]]
  /\ UNCHANGED <<vvars, pvars, sEnv, sReq, sNow>>

SyncNext == SyncHandle \/ SGet \/ SUpsert

SpecSync == SyncInit /\ [][SyncNext]_vars

(***************************************************************************)
(* Claims about the verifiers (SpecVerify).                                *)
(***************************************************************************)
Entries == vBlob.entries
IssuedHash == Sign(vToken, CanonicalCheckString(Entries))
OrdersAgree ==
  /\ DataCheckStringProgress(Entries) = CanonicalCheckString(Entries)
  /\ DataCheckStringSync(Entries) = CanonicalCheckString(Entries)
UserIsObject ==
  /\ ParamsHas(Entries, K_user)
  /\ JsonParse(ParamsGet(Entries, K_user)).ok
  /\ ~JsonParse(ParamsGet(Entries, K_user)).isNull
HasAuthDate == ParamsHas(Entries, K_auth_date)
IsOld == vNow - ToNumber(ParamsGet(Entries, K_auth_date)) > WeekSec

\* C1: in both verifiers, a blob whose hash is not the lower-case hex HMAC of
\* the canonical check-string under the derived key yields no identity.
C1_NoIdentityWithoutSignature ==
  vBlob.hash # IssuedHash =>
    /\ ("progress" \in vRan => ~resP.ok)
    /\ ("sync" \in vRan => ~resS.ok)

\* C2: in both verifiers, a blob whose auth_date is older than the maximum
\* age fails with reason STALE and yields no identity, even when its signature
\* is valid and its user field well-formed.
C2_StaleIsRejected ==
  (HasAuthDate /\ IsOld /\ vBlob.hash = IssuedHash /\ OrdersAgree /\ UserIsObject) =>
    /\ ("progress" \in vRan => ~resP.ok /\ resP.reason = "STALE")
    /\ ("sync" \in vRan => ~resS.ok)

\* C3: verifyTelegramInitData fails with HASH_MISMATCH, and no other reason,
\* on every non-empty hash that differs from the computed signature, a hash
\* of another length included.
C3_AnyDifferenceIsHashMismatch ==
  ( /\ "progress" \in vRan
    /\ vBlob.hash.len # 0
    /\ vBlob.hash # Sign(vToken, DataCheckStringProgress(Entries)) ) =>
    (~resP.ok /\ resP.reason = "HASH_MISMATCH")

\* C4: every blob signed correctly over the canonical check-string, with a
\* parseable user and inside the freshness window, verifies with the identity
\* whose id is the user.id of the signed payload.
C4_IssuedBlobVerifies ==
  (vBlob.hash = IssuedHash /\ UserIsObject /\ HasAuthDate /\ ~IsOld) =>
    /\ ("progress" \in vRan =>
          resP.ok /\ resP.userId = JsonParse(ParamsGet(Entries, K_user)).id)
    /\ ("sync" \in vRan =>
          resS.ok /\ resS.id = JsonParse(ParamsGet(Entries, K_user)).id)

\* C5: the check-string each verifier builds is the canonical one: the pairs
\* ordered by decoded key in code-point order, whatever the keys.
C5_CheckStringIsCanonical ==
  vBlob.hash.len # 0 =>
    /\ ("progress" \in vRan =>
          DataCheckStringProgress(Entries) = CanonicalCheckString(Entries))
    /\ ("sync" \in vRan =>
          DataCheckStringSync(Entries) = CanonicalCheckString(Entries))

\* The comparison itself is sound: an identity is returned only when the hash
\* is the signature of the check-string the verifier built.
GateOnOwnCheckString ==
  /\ (resP.ok => vBlob.hash = Sign(vToken, DataCheckStringProgress(Entries)))
  /\ (resS.ok => vBlob.hash = Sign(vToken, DataCheckStringSync(Entries)))

(***************************************************************************)
(* Claims about the progress function (SpecProgress, SpecBatch).           *)
(***************************************************************************)
Reqs == DOMAIN req

\* The stat events of kind k in a batch.
StatCount(events, k) ==
  Cardinality({i \in 1..Len(events) : events[i].type = "stat" /\ events[i].kind = k})

StatOnly(events) == \A i \in 1..Len(events) : events[i].type = "stat"

RECURSIVE SumOver(_, _, _, _)
\* The stat events of kind k in the batches among 1..n applied for user u on day d.
SumOver(n, u, d, k) ==
  IF n = 0 THEN 0
  ELSE SumOver(n - 1, u, d, k)
       + (IF /\ rq[n].pc = "done" /\ rq[n].status = 200
             /\ rq[n].userId = u /\ rq[n].today = d
          THEN StatCount(req[n].events, k) ELSE 0)

\* C6: with no non-production flag (the code has none), a POST that carries
\* no initData is never given an identity from the X-Dev-* headers: it ends in
\* 401 and writes nothing to the store.
C6_DevIdentityIsGated ==
  \A r \in Reqs :
    ( /\ req[r].method = "POST" /\ req[r].bodyOk
      /\ req[r].initData = NoInitData
      /\ rq[r].pc # "start" ) =>
      /\ rq[r].pc = "done" /\ rq[r].status = 401
      /\ rq[r].idSource # "dev"

\* C7: for stat-only batches of one identity, under every interleaving of
\* their store calls, each stored counter of a day equals its previous value
\* plus the number of stat events of its kind in the batches applied that day.
C7_IncrementsSum ==
  (\A r \in Reqs : StatOnly(req[r].events)) =>
    \A u \in UserIds, d \in Days, k \in Kinds :
      progress[<<u, d>>].c[k] = progress0[<<u, d>>].c[k] + SumOver(Len(req), u, d, k)

\* Two concurrent stat-only batches of the same identity and day, each adding
\* to cards, both applied over a counter that was not zero.
C7_Witness ==
  /\ Len(req) >= 2
  /\ \A r \in Reqs : StatOnly(req[r].events)
  /\ \E a, b \in Reqs :
       /\ a # b
       /\ rq[a].status = 200 /\ rq[b].status = 200
       /\ rq[a].userId = rq[b].userId /\ rq[a].today = rq[b].today
       /\ StatCount(req[a].events, "cards") >= 1
       /\ StatCount(req[b].events, "cards") >= 1
       /\ progress0[<<rq[a].userId, rq[a].today>>].c["cards"] > 0
       /\ progress[<<rq[a].userId, rq[a].today>>].c["cards"]
            >= progress0[<<rq[a].userId, rq[a].today>>].c["cards"] + 2

\* C8: a missing bot secret is surfaced as 500 before any signature check: no
\* request is verified against an empty bot secret, so none goes on to the
\* store with an identity its initData gave it.
C8_NoVerificationWithoutSecret ==
  pEnv = "" => \A r \in Reqs : rq[r].idSource # "initData"

\* C10: counters change only through the atomic increment, so whatever the
\* batches hold (sync events included) no applied increment is lost: each
\* counter is its previous value plus the stat events applied.
C10_NoIncrementLost ==
  (\A r \in Reqs : rq[r].pc = "done" /\ rq[r].status = 200) =>
    \A u \in UserIds, d \in Days, k \in Kinds :
      progress[<<u, d>>].c[k] = progress0[<<u, d>>].c[k] + SumOver(Len(req), u, d, k)

(***************************************************************************)
(* Claims about the sync function (SpecSync).                              *)
(***************************************************************************)
\* C9: every outcome has its stated status; in particular a push with an
\* unparseable JSON body is answered 400, and 500 is answered only when a
\* store call failed.
C9_StatusPerOutcome ==
  (sr.pc = "done" /\ sReq.method # "OPTIONS" /\ ~EnvMissing(sEnv)) =>
    /\ (sr.status = 500 => sr.storeFailed)
    /\ ( ( /\ sReq.action = "push" /\ sReq.method = "POST"
           /\ sr.user.ok /\ ~sReq.bodyOk ) => sr.status = 400 )

\* In sync.js the environment is checked before the signature.
SyncEnvCheckedFirst ==
  (sr.pc # "start" /\ sReq.method # "OPTIONS" /\ EnvMissing(sEnv)) =>
    (sr.pc = "done" /\ sr.status = 500 /\ ~sr.user.ok)

=============================================================================
